---- MODULE Spec2Model ----
(***************************************************************************)
(* Model of tps.py, the Solana TPS dashboard script.                        *)
(*                                                                         *)
(* One script run is: load_data() (behind @st.cache), then the page        *)
(* sections in source order.  A rerun starts the script again with fresh   *)
(* globals; the cache of load_data outlives the runs.                      *)
(*                                                                         *)
(* Numbers.  A float is modelled as an exact fraction <<num, den>> in      *)
(* lowest terms; NaN is the pair with denominator 0.  Integer columns      *)
(* (the per-minute counts, DATETIME in minutes) stay integers.             *)
(* A column name is the sequence of the parts its f-string joins, so       *)
(* f"{i}_per_second" for i = "TX_COUNT" is <<"TX_COUNT", "per_second">>.   *)
(***************************************************************************)
EXTENDS Integers, Sequences, FiniteSets, TLC

(* ---------------------------- bounds ----------------------------------- *)
\* longest freely enumerated response (rows)
MaxRows == 6
\* length of the patterned long responses, one more than the hourly window
LongRows == 61
\* script runs per session
MaxRenders == 2

(* ------------------------ exact fractions ------------------------------ *)
NaN == <<0, 0>>
Zero == <<0, 1>>
One == <<1, 1>>
Half == <<1, 2>>

IsNaN(x) == x[2] = 0

RECURSIVE GCD(_, _)
GCD(a, b) == IF b = 0 THEN a ELSE GCD(b, a % b)

Frac(n, d) == IF d = 0 THEN NaN ELSE LET g == GCD(n, d) IN <<n \div g, d \div g>>

FAdd(a, b) ==
    IF IsNaN(a) \/ IsNaN(b) THEN NaN
    ELSE Frac(a[1] * b[2] + b[1] * a[2], a[2] * b[2])

FMul(a, b) ==
    IF IsNaN(a) \/ IsNaN(b) THEN NaN ELSE Frac(a[1] * b[1], a[2] * b[2])

\* a / k for an integer k; dividing by 0 gives NaN (0/0) as numpy does here
FDivInt(a, k) == IF IsNaN(a) \/ k = 0 THEN NaN ELSE Frac(a[1], a[2] * k)

\* a - b, used only where a >= b
FSub(a, b) ==
    IF IsNaN(a) \/ IsNaN(b) THEN NaN
    ELSE Frac(a[1] * b[2] - b[1] * a[2], a[2] * b[2])

(* ----------------------- series reductions ----------------------------- *)
\* positions lo..hi of s that hold a number
Valid(s, lo, hi) == {j \in lo..hi : ~IsNaN(s[j])}

RECURSIVE SumValid(_, _, _)
\* sum of the numbers at positions lo..hi, NaN entries left out (summed by
\* halves: the fractions are exact, so the order of the additions is immaterial)
SumValid(s, lo, hi) ==
    IF lo > hi THEN Zero
    ELSE IF lo = hi THEN (IF IsNaN(s[lo]) THEN Zero ELSE s[lo])
    ELSE LET mid == (lo + hi) \div 2
         IN  FAdd(SumValid(s, lo, mid), SumValid(s, mid + 1, hi))

RECURSIVE SumSqValid(_, _, _)
SumSqValid(s, lo, hi) ==
    IF lo > hi THEN Zero
    ELSE IF lo = hi THEN (IF IsNaN(s[lo]) THEN Zero ELSE FMul(s[lo], s[lo]))
    ELSE LET mid == (lo + hi) \div 2
         IN  FAdd(SumSqValid(s, lo, mid), SumSqValid(s, mid + 1, hi))

\* Series.mean(): skipna=True, NaN when nothing is left
SeriesMean(s) ==
    LET k == Cardinality(Valid(s, 1, Len(s)))
    IN  FDivInt(SumValid(s, 1, Len(s)), k)

\* Series.std() squared: skipna=True, ddof=1, NaN with fewer than 2 numbers.
\* var = (k * sum(x^2) - sum(x)^2) / (k * (k - 1))
SeriesVar(s) ==
    LET k  == Cardinality(Valid(s, 1, Len(s)))
        sm == SumValid(s, 1, Len(s))
        sq == SumSqValid(s, 1, Len(s))
    IN  IF k < 2 THEN NaN
        ELSE FDivInt(FSub(FMul(<<k, 1>>, sq), FMul(sm, sm)), k * (k - 1))

(* ------------------------------ frames --------------------------------- *)
\* A DataFrame: its index and its columns (name -> values, one per row).
\* NoFrame stands for a name the run has not bound yet.
NoFrame == [index |-> <<>>, columns |-> <<>>]

NRows(f) == Len(f.index)

\* df[name] = vals on an existing frame
WithColumn(f, name, vals) == [f EXCEPT !.columns = (name :> vals) @@ @]

\* pd.read_json(url) on a JSON array of records: one column per key, RangeIndex.
\* An empty array gives a frame with no columns at all.
RawColumns == {<<"DATETIME">>, <<"TX_COUNT">>, <<"SUCCESS">>, <<"FAILS">>, <<"SUCCESS_RATE">>}

ReadJson(resp) ==
    IF resp = <<>> THEN NoFrame
    ELSE [index   |-> [i \in 1..Len(resp) |-> i - 1],
          columns |-> [c \in RawColumns |-> [i \in 1..Len(resp) |-> resp[i][c[1]]]]]

(* ----------------------------- load_data ------------------------------- *)
PerSecondDivisor == 60

\* variant: floor division, df[i] // 60
DivSeriesFloor(s, d) == [i \in 1..Len(s) |-> <<s[i] \div d, 1>>]
\* df[i] / 60 on an integer column: true division, no rounding
DivSeries(s, d) == [i \in 1..Len(s) |-> Frac(s[i], d)]

CountColumns == <<"TX_COUNT", "SUCCESS", "FAILS">>

RECURSIVE AddPerSecond(_, _)
\* for i in ["TX_COUNT", "SUCCESS", "FAILS"]: df[f"{i}_per_second"] = df[i] / 60
AddPerSecond(f, names) ==
    IF names = <<>> THEN f
    ELSE AddPerSecond(
             WithColumn(f, <<Head(names), "per_second">>,
                        DivSeries(f.columns[<<Head(names)>>], PerSecondDivisor)),
             Tail(names))

\* variant: rolling(w, min_periods=1)
MinPeriodsOne(w) == 1
\* Series.rolling(w) leaves min_periods at its default, the window size
MinPeriods(w) == w

\* variant: a window of w + 1 rows
WindowStartLate(i, w) == IF i - w < 1 THEN 1 ELSE i - w
\* first row position of the window that ends at row i
WindowStart(i, w) == IF i - w + 1 < 1 THEN 1 ELSE i - w + 1

\* Series.rolling(w).mean(): at row i, over the last w row positions, the mean
\* of the numbers there when at least min_periods of them are numbers, else NaN
RollingMean(s, w) ==
    [i \in 1..Len(s) |->
        LET lo == WindowStart(i, w)
            k  == Cardinality(Valid(s, lo, i))
        IN  IF k >= MinPeriods(w) THEN FDivInt(SumValid(s, lo, i), k) ELSE NaN]

RollingBases ==
    << <<"TX_COUNT", "per_second">>, <<"SUCCESS", "per_second">>,
       <<"SUCCESS_RATE">>, <<"FAILS", "per_second">> >>

\* the five rolling columns of the loop body, in source order
RollingWindows ==
    << [suffix |-> "5_min_avg",  window |-> 5],
       [suffix |-> "hourly_avg", window |-> 60],
       [suffix |-> "6_hr_avg",   window |-> 60 * 6],
       [suffix |-> "daily_avg",  window |-> 60 * 24],
       [suffix |-> "weekly_avg", window |-> 60 * 24 * 7] >>

RECURSIVE AddWindows(_, _, _)
AddWindows(f, base, ws) ==
    IF ws = <<>> THEN f
    ELSE AddWindows(
             WithColumn(f, Append(base, Head(ws).suffix),
                        RollingMean(f.columns[base], Head(ws).window)),
             base, Tail(ws))

RECURSIVE AddRolling(_, _)
AddRolling(f, bases) ==
    IF bases = <<>> THEN f
    ELSE AddRolling(AddWindows(f, Head(bases), RollingWindows), Tail(bases))

\* variant: a load_data that derives the ratio itself, SUCCESS / TX_COUNT
TransformComputesRate(raw) ==
    LET f  == AddPerSecond(raw, CountColumns)
        tx == f.columns[<<"TX_COUNT">>]
        ok == f.columns[<<"SUCCESS">>]
    IN  AddRolling(WithColumn(f, <<"SUCCESS_RATE">>,
                              [i \in 1..Len(tx) |-> Frac(ok[i], tx[i])]),
                   RollingBases)
\* the body of load_data after the fetch (lines 14-29)
Transform(raw) == AddRolling(AddPerSecond(raw, CountColumns), RollingBases)

(* ----------------------- what the endpoint serves ---------------------- *)
MinutesPerDay == 1440

\* one minute's record without its timestamp
Full     == [TX_COUNT |-> 60, SUCCESS |-> 60, FAILS |-> 0,  SUCCESS_RATE |-> One]
Part     == [TX_COUNT |-> 90, SUCCESS |-> 45, FAILS |-> 45, SUCCESS_RATE |-> Half]
IdleNaN  == [TX_COUNT |-> 0,  SUCCESS |-> 0,  FAILS |-> 0,  SUCCESS_RATE |-> NaN]
IdleZero == [TX_COUNT |-> 0,  SUCCESS |-> 0,  FAILS |-> 0,  SUCCESS_RATE |-> Zero]
RowKinds == {Full, Part, IdleNaN, IdleZero}

\* rows 1..p fall on day 1, the later rows on day 1 + g; minutes are distinct
Stamp(i, p, g) == (IF i <= p THEN 1 ELSE 1 + g) * MinutesPerDay + (i - 1)

Response(kinds, p, g) ==
    [i \in 1..Len(kinds) |->
        [DATETIME     |-> Stamp(i, p, g),
         TX_COUNT     |-> kinds[i].TX_COUNT,
         SUCCESS      |-> kinds[i].SUCCESS,
         FAILS        |-> kinds[i].FAILS,
         SUCCESS_RATE |-> kinds[i].SUCCESS_RATE]]

DayGaps == {1, 2}

\* n rows, all Full but for the rows at positions a and b
Kinds(n, a, b, ka, kb) ==
    [i \in 1..n |-> IF i = a THEN ka ELSE IF i = b THEN kb ELSE Full]

\* the empty array, and every array of 1..MaxRows rows of that shape, on one
\* day, on two adjacent days, or on two days with an empty day between them
ShortResponses ==
    {<<>>} \cup
    UNION {{Response(Kinds(n, a, b, ka, kb), p, g) :
               a \in 1..n, b \in 1..n, ka \in RowKinds, kb \in RowKinds,
               p \in {1, n}, g \in DayGaps}
           : n \in 1..MaxRows}

\* LongRows rows of one kind on one day, one row of them replaced
LongResponses ==
    {Response([i \in 1..LongRows |-> IF i = at THEN odd ELSE k], LongRows, 1)
        : k \in {Full, Part}, odd \in RowKinds, at \in {1, 2, LongRows}}

Responses == ShortResponses \cup LongResponses

(* -------------------------- frame operations --------------------------- *)
\* df[[names]]: a new frame with the listed columns and the same index
Select(f, names) == [index |-> f.index, columns |-> [c \in names |-> f.columns[c]]]

\* f.rename(columns=m): a new frame; m maps each old name it lists to a new one
Rename(f, m) ==
    LET new(c) == IF c \in DOMAIN m THEN m[c] ELSE c
    IN  [index   |-> f.index,
         columns |-> [c \in {new(o) : o \in DOMAIN f.columns} |->
                         f.columns[CHOOSE o \in DOMAIN f.columns : new(o) = c]]]

\* f.index = idx
SetIndex(f, idx) == [f EXCEPT !.index = idx]

(* --------------------------- Average TPS ------------------------------- *)
\* One "mean +- error" of the summary text, before the format spec is applied:
\* s.mean(), s.std() squared, and the square of s.std() / np.sqrt(n), where the
\* caller passes n = len(df); percent marks the two values shown times 100.
Stat(s, n, pc100) ==
    [mean    |-> SeriesMean(s),
     var     |-> SeriesVar(s),
     sem2    |-> FDivInt(SeriesVar(s), n),
     percent |-> pc100]

SummaryOf(f) ==
    [TX_COUNT_per_second |-> Stat(f.columns[<<"TX_COUNT", "per_second">>], NRows(f), FALSE),
     SUCCESS_per_second  |-> Stat(f.columns[<<"SUCCESS", "per_second">>], NRows(f), FALSE),
     SUCCESS_RATE        |-> Stat(f.columns[<<"SUCCESS_RATE">>], NRows(f), TRUE)]

NoSummary == <<>>

(* ------------------------------ charts --------------------------------- *)
OverallNames ==
    (<<"TX_COUNT", "per_second", "hourly_avg">> :> <<"Hourly Average, TPS">>) @@
    (<<"TX_COUNT", "per_second", "daily_avg">>  :> <<"Daily Average, TPS">>) @@
    (<<"SUCCESS", "per_second", "hourly_avg">>  :> <<"Hourly Average, Successful TPS">>) @@
    (<<"SUCCESS", "per_second", "daily_avg">>   :> <<"Daily Average, Successful TPS">>)

RateNames ==
    (<<"SUCCESS_RATE">>               :> <<"Success Rate">>) @@
    (<<"SUCCESS_RATE", "hourly_avg">> :> <<"Hourly Average, Success Rate">>) @@
    (<<"SUCCESS_RATE", "daily_avg">>  :> <<"Daily Average, Success Rate">>)

\* chart_data = df[[...]]; chart_data = chart_data.rename(...);
\* chart_data.index = df.DATETIME
ChartData(f, names) ==
    SetIndex(Rename(Select(f, DOMAIN names), names), f.columns[<<"DATETIME">>])

(* ---------------------------- Daily TPS -------------------------------- *)
\* resample("D", on="DATETIME") floors each timestamp to its calendar day
DayOf(t) == t \div MinutesPerDay

Min(S) == CHOOSE x \in S : \A y \in S : x <= y
Max(S) == CHOOSE x \in S : \A y \in S : y <= x

\* the values of s on the rows of day d, the other rows blanked
OnDay(s, stamps, d) == [i \in 1..Len(s) |-> IF DayOf(stamps[i]) = d THEN s[i] ELSE NaN]

\* variant: the sum of the day's numbers over the count of all the day's rows
DayMeanAllRows(s, stamps, d) ==
    FDivInt(SumValid(OnDay(s, stamps, d), 1, Len(s)),
            Cardinality({i \in 1..Len(s) : DayOf(stamps[i]) = d}))
\* mean of one bucket: the numbers of the day's rows, NaN for none
DayMean(s, stamps, d) == SeriesMean(OnDay(s, stamps, d))

DailyNames ==
    (<<"TX_COUNT", "per_second">> :> <<"Mean TPS">>) @@
    (<<"SUCCESS_RATE">>           :> <<"Mean Success Rate">>) @@
    (<<"SUCCESS", "per_second">>  :> <<"Mean Successful TPS">>)

\* df.copy().resample("D", on="DATETIME").mean()[[...]]: one row for every
\* calendar day from the first record's day to the last record's day
ResampleMean(f, names) ==
    LET stamps == f.columns[<<"DATETIME">>]
        days   == {DayOf(stamps[i]) : i \in 1..Len(stamps)}
        first  == Min(days)
        count  == Max(days) - first + 1
    IN  [index   |-> [k \in 1..count |-> (first + k - 1) * MinutesPerDay],
         columns |-> [c \in names |->
                         [k \in 1..count |-> DayMean(f.columns[c], stamps, first + k - 1)]]]

\* lines 100-111
MeanDaily(f) ==
    LET m == ResampleMean(f, DOMAIN DailyNames)
    IN  Rename(WithColumn(m, <<"date">>, m.index), DailyNames)

(* ----------------------------- spearmanr ------------------------------- *)
\* scipy.stats.spearmanr(x, y) with nan_policy left at 'propagate'.  The two
\* floats of the result are kept as "nan" or "number"; raised marks a call
\* that ends in an exception.  NaN comes back for at most one observation, for
\* a constant input and for any NaN among the inputs; with exactly two
\* observations the coefficient is a number and the p-value is NaN (dof = 0).
Constant(x) == \A i \in 1..Len(x) : x[i] = x[1]

\* variant: raises for fewer than two observations, as pearsonr does
SpearmanrStrict(x, y) ==
    IF Len(x) < 2 THEN [raised |-> TRUE, correlation |-> "nan", pvalue |-> "nan"]
    ELSE IF Constant(x) \/ Constant(y) \/ \E i \in 1..Len(x) : IsNaN(x[i]) \/ IsNaN(y[i])
    THEN [raised |-> FALSE, correlation |-> "nan", pvalue |-> "nan"]
    ELSE [raised |-> FALSE, correlation |-> "number",
          pvalue |-> IF Len(x) = 2 THEN "nan" ELSE "number"]
Spearmanr(x, y) ==
    IF Len(x) <= 1 \/ Constant(x) \/ Constant(y)
       \/ \E i \in 1..Len(x) : IsNaN(x[i]) \/ IsNaN(y[i])
    THEN [raised |-> FALSE, correlation |-> "nan", pvalue |-> "nan"]
    ELSE [raised |-> FALSE, correlation |-> "number",
          pvalue |-> IF Len(x) = 2 THEN "nan" ELSE "number"]

NoCorr == <<>>

(* ------------------------------ state ---------------------------------- *)
VARIABLES
    cache,       \* st.cache's store for load_data(): empty, or the one cached frame
    fetched,     \* body of the last successful HTTP GET of the query's data
    fetches,     \* HTTP GETs issued in the session
    renders,     \* script runs started in the session
    tried,       \* HTTP GETs issued by the current run
    pc,          \* section of the script the current run executes next
    df,          \* the run's global df
    summary,     \* statistics interpolated into the "Average TPS" text
    chart_data,  \* the run's global chart_data
    mean_daily,  \* the run's global mean_daily
    corr,        \* results of the two spearmanr calls
    out          \* elements the run has sent to the page, in order

vars == <<cache, fetched, fetches, renders, tried, pc, df, summary, chart_data,
          mean_daily, corr, out>>

locals == <<df, summary, chart_data, mean_daily, corr>>

Init ==
    /\ cache = {}
    /\ fetched = <<>>
    /\ fetches = 0
    /\ renders = 1
    /\ tried = 0
    /\ pc = "load"
    /\ df = NoFrame
    /\ summary = NoSummary
    /\ chart_data = NoFrame
    /\ mean_daily = NoFrame
    /\ corr = NoCorr
    /\ out = <<>>

(* ----------------------- df = load_data()  (line 32) ------------------- *)
\* variant: the cache is ignored and the body runs again
CacheHitRefetch ==
    /\ pc = "load"
    /\ cache # {}
    /\ \E resp \in Responses \ {<<>>} :
          /\ fetched' = resp
          /\ df' = Transform(ReadJson(resp))
          /\ cache' = {Transform(ReadJson(resp))}
    /\ fetches' = fetches + 1
    /\ tried' = tried + 1
    /\ pc' = "header"
    /\ UNCHANGED <<renders, summary, chart_data, mean_daily, corr, out>>
\* the cached value is returned and the function body does not run
CacheHit ==
    /\ pc = "load"
    /\ cache # {}
    /\ df' \in cache
    /\ pc' = "header"
    /\ UNCHANGED <<cache, fetched, fetches, renders, tried, summary, chart_data,
                   mean_daily, corr, out>>

\* variant: one retry after a failed fetch
FetchFailsRetry ==
    /\ pc = "load"
    /\ cache = {}
    /\ tried < 2
    /\ fetches' = fetches + 1
    /\ tried' = tried + 1
    /\ pc' = IF tried = 0 THEN "load" ELSE "aborted"
    /\ UNCHANGED <<cache, fetched, renders, df, summary, chart_data, mean_daily,
                   corr, out>>
\* the body runs and pd.read_json raises (network or parse error), or the
\* array is empty and df["TX_COUNT"] raises KeyError: the run ends, nothing
\* is cached
FetchFails ==
    /\ pc = "load"
    /\ cache = {}
    /\ fetches' = fetches + 1
    /\ tried' = tried + 1
    /\ pc' = "aborted"
    /\ UNCHANGED <<cache, fetched, renders, df, summary, chart_data, mean_daily,
                   corr, out>>

\* the body runs to its return: the frame is cached and bound to df
FetchReturns ==
    /\ pc = "load"
    /\ cache = {}
    /\ \E resp \in Responses \ {<<>>} :
          /\ fetched' = resp
          /\ df' = Transform(ReadJson(resp))
          /\ cache' = {Transform(ReadJson(resp))}
    /\ fetches' = fetches + 1
    /\ tried' = tried + 1
    /\ pc' = "header"
    /\ UNCHANGED <<renders, summary, chart_data, mean_daily, corr, out>>

(* ------------------- title and "Average TPS" (34-51) ------------------- *)
Header ==
    /\ pc = "header"
    /\ summary' = SummaryOf(df)
    /\ out' = out \o <<"title", "caption", "subheader", "markdown">>
    /\ pc' = "overall"
    /\ UNCHANGED <<cache, fetched, fetches, renders, tried, df, chart_data,
                   mean_daily, corr>>

(* ------------------------ Overall TPS (53-71) -------------------------- *)
\* variant: the index is set on df itself as well
OverallChartOnDf ==
    /\ pc = "overall"
    /\ chart_data' = ChartData(df, OverallNames)
    /\ df' = SetIndex(df, df.columns[<<"DATETIME">>])
    /\ out' = Append(out, "line_chart")
    /\ pc' = "rate"
    /\ UNCHANGED <<cache, fetched, fetches, renders, tried, summary, mean_daily, corr>>
OverallChart ==
    /\ pc = "overall"
    /\ chart_data' = ChartData(df, OverallNames)
    /\ out' = Append(out, "line_chart")
    /\ pc' = "rate"
    /\ UNCHANGED <<cache, fetched, fetches, renders, tried, df, summary,
                   mean_daily, corr>>

(* ------------------------ Success Rate (73-95) ------------------------- *)
RateChart ==
    /\ pc = "rate"
    /\ chart_data' = ChartData(df, RateNames)
    /\ out' = out \o <<"markdown", "line_chart">>
    /\ pc' = "daily"
    /\ UNCHANGED <<cache, fetched, fetches, renders, tried, df, summary,
                   mean_daily, corr>>

(* ------------------------- Daily TPS (97-111) -------------------------- *)
Daily ==
    /\ pc = "daily"
    /\ mean_daily' = MeanDaily(df)
    /\ out' = Append(out, "subheader")
    /\ pc' = "spearman"
    /\ UNCHANGED <<cache, fetched, fetches, renders, tried, df, summary,
                   chart_data, corr>>

(* ------------------------- spearmanr (113-114) ------------------------- *)
CorrOf(m) ==
    [tps  |-> Spearmanr(m.columns[<<"Mean TPS">>], m.columns[<<"Mean Successful TPS">>]),
     rate |-> Spearmanr(m.columns[<<"Mean TPS">>], m.columns[<<"Mean Success Rate">>])]

Correlate ==
    /\ pc = "spearman"
    /\ corr' = CorrOf(mean_daily)
    /\ pc' = IF CorrOf(mean_daily).tps.raised \/ CorrOf(mean_daily).rate.raised
             THEN "aborted" ELSE "daily_chart"
    /\ UNCHANGED <<cache, fetched, fetches, renders, tried, df, summary,
                   chart_data, mean_daily, out>>

(* ------------------ daily text and chart (116-161) --------------------- *)
DailyChart ==
    /\ pc = "daily_chart"
    /\ out' = out \o <<"markdown", "altair_chart">>
    /\ pc' = "methods"
    /\ UNCHANGED <<cache, fetched, fetches, renders, tried, df, summary,
                   chart_data, mean_daily, corr>>

(* ----------------------- Methods, table (163-177) ---------------------- *)
Methods ==
    /\ pc = "methods"
    /\ out' = out \o <<"subheader", "markdown", "dataframe">>
    /\ pc' = "done"
    /\ UNCHANGED <<cache, fetched, fetches, renders, tried, df, summary,
                   chart_data, mean_daily, corr>>

(* ------------------------------- rerun --------------------------------- *)
\* Streamlit runs the script again from the top with fresh globals; the
\* cache of load_data is kept
Rerun ==
    /\ pc \in {"done", "aborted"}
    /\ renders < MaxRenders
    /\ renders' = renders + 1
    /\ tried' = 0
    /\ pc' = "load"
    /\ df' = NoFrame
    /\ summary' = NoSummary
    /\ chart_data' = NoFrame
    /\ mean_daily' = NoFrame
    /\ corr' = NoCorr
    /\ out' = <<>>
    /\ UNCHANGED <<cache, fetched, fetches>>

Next ==
    \/ CacheHit
    \/ FetchFails
    \/ FetchReturns
    \/ Header
    \/ OverallChart
    \/ RateChart
    \/ Daily
    \/ Correlate
    \/ DailyChart
    \/ Methods
    \/ Rerun

Spec == Init /\ [][Next]_vars

(* ======================================================================= *)
(* Properties                                                              *)
(* ======================================================================= *)
Range(q) == {q[i] : i \in 1..Len(q)}

RECURSIVE SumIn(_, _, _, _)
SumIn(s, S, lo, hi) ==
    IF lo > hi THEN Zero
    ELSE IF lo = hi THEN (IF lo \in S THEN s[lo] ELSE Zero)
    ELSE LET mid == (lo + hi) \div 2
         IN  FAdd(SumIn(s, S, lo, mid), SumIn(s, S, mid + 1, hi))

\* plain sum of s over the row positions S; not a number if any term is not
SumAt(s, S) == SumIn(s, S, 1, Len(s))

Defined(s, S) == {i \in S : ~IsNaN(s[i])}

\* load_data has just returned into df
Loaded == pc = "header"

RollingColumn(b, k) == df.columns[Append(b, RollingWindows[k].suffix)]

\* C1: every rolling column holds, at each row whose window of w rows is full
\* and holds only numbers, the arithmetic mean of those w inputs, and is
\* undefined at each of the first w - 1 rows.
C1_RollingMean ==
    Loaded =>
        \A b \in Range(RollingBases), k \in 1..Len(RollingWindows) :
            LET w == RollingWindows[k].window
                s == df.columns[b]
                r == RollingColumn(b, k)
            IN  /\ Len(r) = Len(s)
                /\ \A i \in 1..Len(s) :
                      /\ i < w => IsNaN(r[i])
                      /\ (i >= w /\ Defined(s, (i - w + 1)..i) = (i - w + 1)..i)
                            => /\ ~IsNaN(r[i])
                               /\ FMul(r[i], <<w, 1>>) = SumAt(s, (i - w + 1)..i)

\* a long response: the 5-minute and the hourly mean of the total rate are
\* numbers that differ from the row's own rate
C1_Witness ==
    /\ Loaded
    /\ NRows(df) >= 60
    /\ LET s == df.columns[<<"TX_COUNT", "per_second">>]
       IN  /\ ~IsNaN(RollingColumn(<<"TX_COUNT", "per_second">>, 1)[5])
           /\ RollingColumn(<<"TX_COUNT", "per_second">>, 1)[5] # s[5]
           /\ ~IsNaN(RollingColumn(<<"TX_COUNT", "per_second">>, 2)[60])
           /\ RollingColumn(<<"TX_COUNT", "per_second">>, 2)[60] # s[60]
           /\ IsNaN(RollingColumn(<<"TX_COUNT", "per_second">>, 2)[59])

\* C2: each per-second column has one entry per fetched record, in the
\* records' order, equal to that record's count divided by 60, unrounded.
C2_PerSecond ==
    Loaded =>
        \A c \in Range(CountColumns) :
            LET v == df.columns[<<c, "per_second">>]
            IN  /\ Len(v) = Len(fetched)
                /\ \A i \in 1..Len(v) :
                      /\ v[i][2] # 0
                      /\ v[i][1] * 60 = fetched[i][c] * v[i][2]

\* a count of 90 per minute gives 3/2 per second
C2_Witness ==
    /\ Loaded
    /\ \E i \in 1..NRows(df) :
          /\ fetched[i].TX_COUNT = 90
          /\ df.columns[<<"TX_COUNT", "per_second">>][i] = <<3, 2>>
          /\ df.columns[<<"SUCCESS", "per_second">>][i] = <<3, 4>>

\* C3 as stated: wherever TX_COUNT is 0 the returned SUCCESS_RATE is undefined,
\* whatever the fetched record carried.
C3_UndefinedAtZero ==
    Loaded =>
        \A i \in 1..NRows(df) :
            df.columns[<<"TX_COUNT">>][i] = 0 => IsNaN(df.columns[<<"SUCCESS_RATE">>][i])

\* C3 amended: the returned SUCCESS_RATE is, row by row, the value the fetched
\* record carried; at a row with TX_COUNT 0 it is undefined exactly when the
\* record carried the undefined marker.
C3_RateAsFetched ==
    Loaded =>
        \A i \in 1..NRows(df) :
            /\ df.columns[<<"SUCCESS_RATE">>][i] = fetched[i].SUCCESS_RATE
            /\ df.columns[<<"TX_COUNT">>][i] = 0 =>
                  (IsNaN(df.columns[<<"SUCCESS_RATE">>][i])
                      <=> IsNaN(fetched[i].SUCCESS_RATE))

\* two rows without transactions, one fetched with ratio 0, one with no ratio
C3_Witness ==
    /\ Loaded
    /\ \E i, j \in 1..NRows(df) :
          /\ df.columns[<<"TX_COUNT">>][i] = 0
          /\ df.columns[<<"SUCCESS_RATE">>][i] = Zero
          /\ df.columns[<<"TX_COUNT">>][j] = 0
          /\ IsNaN(df.columns[<<"SUCCESS_RATE">>][j])

\* C10: a rolling output is undefined whenever any input at the row positions
\* of its window is undefined.
C10_Propagate ==
    Loaded =>
        \A b \in Range(RollingBases), k \in 1..Len(RollingWindows) :
            LET w == RollingWindows[k].window
                s == df.columns[b]
                r == RollingColumn(b, k)
            IN  \A i \in 1..Len(s) :
                    LET win == (IF i - w + 1 < 1 THEN 1 ELSE i - w + 1)..i
                    IN  Defined(s, win) # win => IsNaN(r[i])

\* a full 5-row window of SUCCESS_RATE with one undefined input and four numbers
C10_Witness ==
    /\ Loaded
    /\ \E i \in 5..NRows(df) :
          /\ Cardinality(Defined(df.columns[<<"SUCCESS_RATE">>], (i - 4)..i)) = 4
          /\ IsNaN(RollingColumn(<<"SUCCESS_RATE">>, 1)[i])

(* ------------------------------ daily ---------------------------------- *)
\* mean_daily is bound and the run is past the resample
DailyBuilt == pc \in {"spearman", "daily_chart", "methods", "done"}

RowsOfDay(d) ==
    {i \in 1..NRows(df) : DayOf(df.columns[<<"DATETIME">>][i]) = d}

DayAt(k) == DayOf(mean_daily.index[k])

\* C4 as stated: a day with records r1..rn has, in each of the three columns,
\* the arithmetic mean of all n rows' values; a day without records is
\* undefined (or absent), never 0.
C4_MeanOfAllRows ==
    DailyBuilt =>
        \A k \in 1..NRows(mean_daily), c \in DOMAIN DailyNames :
            LET rows == RowsOfDay(DayAt(k))
                v    == mean_daily.columns[DailyNames[c]][k]
            IN  IF rows = {} THEN IsNaN(v)
                ELSE v = FDivInt(SumAt(df.columns[c], rows), Cardinality(rows))

\* C4 amended: a day with records has, in each of the three columns, the
\* arithmetic mean of the defined values among its rows (undefined when none
\* of them is defined); the table has one row per calendar day from the first
\* record's day to the last, and a day without records is undefined there.
C4_MeanOfDefinedRows ==
    DailyBuilt =>
        /\ \A i \in 1..NRows(df) :
              \E k \in 1..NRows(mean_daily) : DayAt(k) = DayOf(df.columns[<<"DATETIME">>][i])
        /\ \A k \in 1..NRows(mean_daily) :
              /\ mean_daily.columns[<<"date">>][k] = mean_daily.index[k]
              /\ k > 1 => DayAt(k) = DayAt(k - 1) + 1
              /\ RowsOfDay(DayAt(1)) # {}
              /\ RowsOfDay(DayAt(NRows(mean_daily))) # {}
        /\ \A k \in 1..NRows(mean_daily), c \in DOMAIN DailyNames :
              LET rows == RowsOfDay(DayAt(k))
                  ok   == Defined(df.columns[c], rows)
                  v    == mean_daily.columns[DailyNames[c]][k]
              IN  IF ok = {} THEN IsNaN(v)
                  ELSE /\ ~IsNaN(v)
                       /\ FMul(v, <<Cardinality(ok), 1>>) = SumAt(df.columns[c], ok)

\* three calendar days, the middle one without records, and a day whose rows
\* hold both an undefined and a defined SUCCESS_RATE
C4_Witness ==
    /\ DailyBuilt
    /\ NRows(mean_daily) = 3
    /\ IsNaN(mean_daily.columns[<<"Mean TPS">>][2])
    /\ LET rows == RowsOfDay(DayAt(3))
           ok   == Defined(df.columns[<<"SUCCESS_RATE">>], rows)
       IN  /\ ok # {}
           /\ ok # rows
           /\ ~IsNaN(mean_daily.columns[<<"Mean Success Rate">>][3])

(* ----------------------------- summary --------------------------------- *)
SummaryBuilt == pc \in {"overall", "rate", "daily", "spearman", "daily_chart", "methods", "done"}

SummarySeries ==
    [TX_COUNT_per_second |-> <<"TX_COUNT", "per_second">>,
     SUCCESS_per_second  |-> <<"SUCCESS", "per_second">>,
     SUCCESS_RATE        |-> <<"SUCCESS_RATE">>]

\* C5: for each summary series the mean is sum / n and the standard error is
\* stddev / sqrt(n) with one and the same n, the number of values summed, also
\* when some SUCCESS_RATE rows are undefined.  (sem2 is the error squared.)
C5_SameN ==
    SummaryBuilt =>
        \A x \in DOMAIN SummarySeries :
            LET s  == df.columns[SummarySeries[x]]
                ok == Defined(s, 1..Len(s))
                n  == Cardinality(ok)
            IN  /\ summary[x].mean = FDivInt(SumAt(s, ok), n)
                /\ summary[x].sem2 = FDivInt(summary[x].var, n)

(* ----------------------------- spearman -------------------------------- *)
ValidPairs(x, y) == Cardinality({i \in 1..Len(x) : ~IsNaN(x[i]) /\ ~IsNaN(y[i])})

NaNResult == [raised |-> FALSE, correlation |-> "nan", pvalue |-> "nan"]

\* C6: with fewer than 2 valid paired daily points a Spearman call ends with
\* NaN for coefficient and p-value, and the run goes on to render: once the
\* daily table is built the run never aborts.
C6_FewPointsGiveNaN ==
    (NRows(mean_daily) > 0 /\ pc \notin {"daily", "spearman"}) =>
        /\ pc \in {"daily_chart", "methods", "done"}
        /\ ValidPairs(mean_daily.columns[<<"Mean TPS">>],
                      mean_daily.columns[<<"Mean Successful TPS">>]) < 2
              => corr.tps = NaNResult
        /\ ValidPairs(mean_daily.columns[<<"Mean TPS">>],
                      mean_daily.columns[<<"Mean Success Rate">>]) < 2
              => corr.rate = NaNResult

\* a single calendar day: both calls gave NaN and the run rendered to its end
C6_Witness ==
    /\ pc = "done"
    /\ NRows(mean_daily) = 1
    /\ corr.tps = NaNResult
    /\ corr.rate = NaNResult
    /\ out[Len(out)] = "dataframe"

(* ------------------------- fetch and cache ----------------------------- *)
\* C7: a run whose fetch or parse fails ends before any element is emitted and
\* issues no second fetch; whatever is emitted is emitted after load_data
\* returned a frame.
C7_FailureIsFatal ==
    /\ tried <= 1
    /\ pc = "aborted" => (out = <<>> /\ tried = 1 /\ df = NoFrame)
    /\ out # <<>> => (df # NoFrame /\ pc \notin {"load", "header"})

\* a failed run
C7_Witness ==
    /\ pc = "aborted"
    /\ tried = 1
    /\ out = <<>>
    /\ cache = {}

\* C8: once load_data has returned, no later step fetches again and every
\* later run gets the cached frame; after a successful first load the number
\* of fetches is 1.
C8_OneFetch ==
    /\ []((renders = 1 /\ cache # {}) => fetches = 1)
    /\ [][cache # {} =>
            /\ fetches' = fetches
            /\ cache' = cache
            /\ (pc = "load" => (df' \in cache /\ pc' = "header"))]_vars

\* a second run that finished on the cached frame
C8_Witness ==
    /\ renders >= 2
    /\ pc = "done"
    /\ tried = 0
    /\ fetches = 1
    /\ df \in cache

\* C9: no section after load_data changes df.
C9_FrameUnchanged ==
    [][(pc \in {"header", "overall", "rate", "daily", "spearman", "daily_chart", "methods"})
          => (df' = df)]_vars

\* a finished run: both charts and the daily table were derived, the last
\* chart_data carries the DATETIME index, df still its own
C9_Witness ==
    /\ pc = "done"
    /\ df \in cache
    /\ df = Transform(ReadJson(fetched))
    /\ chart_data.index = df.columns[<<"DATETIME">>]
    /\ chart_data.index # df.index
    /\ <<"date">> \in DOMAIN mean_daily.columns
    /\ <<"date">> \notin DOMAIN df.columns

====
